---- MODULE Spec2Model ----
(***************************************************************************)
(* ANGSPE publications scraper: the extraction / deduplication / analysis   *)
(* pipeline of scraper.py and the read endpoints of app/main.py.            *)
(*                                                                          *)
(* Text is a sequence of one-character strings, so that str.lower,          *)
(* str.translate, str.split, str.replace and the substring test are    *)
(* computed character by character as Python computes them.                 *)
(***************************************************************************)
EXTENDS Integers, Sequences, FiniteSets, TLC

VARIABLES nt, pp, year, files, run, nruns, resp, last

vars == <<nt, pp, year, files, run, nruns, resp, last>>

(***************************************************************************)
(* Python values                                                            *)
(***************************************************************************)
\* Python's None, kept apart from every text (no character is "<None>").
None == <<"<None>">>

\* bool(v) is False for None and for the empty string.
Falsy(v) == v = None \/ v = <<>>

Whitespace == {" ", "\t", "\n"}

\* The grave accent character U+0060 of string.punctuation.
GraveAccent == "U+0060"

\* string.punctuation without the hyphen and the period
RemovedPunctuation ==
  {"!", "\"", "#", "$", "%", "&", "'", "(", ")", "*", "+", ",", "/", ":", ";",
   "<", "=", ">", "?", "@", "[", "\\", "]", "^", "_", GraveAccent, "{", "|", "}", "~"}

UpperCase ==
  {<<"A", "a">>, <<"B", "b">>, <<"C", "c">>, <<"D", "d">>, <<"E", "e">>,
   <<"F", "f">>, <<"G", "g">>, <<"H", "h">>, <<"I", "i">>, <<"J", "j">>,
   <<"K", "k">>, <<"L", "l">>, <<"M", "m">>, <<"N", "n">>, <<"O", "o">>,
   <<"P", "p">>, <<"Q", "q">>, <<"R", "r">>, <<"S", "s">>, <<"T", "t">>,
   <<"U", "u">>, <<"V", "v">>, <<"W", "w">>, <<"X", "x">>, <<"Y", "y">>,
   <<"Z", "z">>, <<"É", "é">>, <<"À", "à">>}

\* str.lower(), one character
LowerChar(c) ==
  IF \E p \in UpperCase : p[1] = c
  THEN (CHOOSE p \in UpperCase : p[1] = c)[2]
  ELSE c

\* str.lower()
lower(s) == [i \in 1..Len(s) |-> LowerChar(s[i])]

RECURSIVE lstrip(_)
lstrip(s) == IF s # <<>> /\ Head(s) \in Whitespace THEN lstrip(Tail(s)) ELSE s

RECURSIVE rstrip(_)
rstrip(s) ==
  IF s # <<>> /\ s[Len(s)] \in Whitespace THEN rstrip(SubSeq(s, 1, Len(s) - 1))
  ELSE s

\* str.strip()
strip(s) == rstrip(lstrip(s))

\* str.translate with a table that only deletes characters
translate(s, deleted) == SelectSeq(s, LAMBDA c : c \notin deleted)

\* s.startswith(t)
StartsWith(s, t) == Len(t) <= Len(s) /\ SubSeq(s, 1, Len(t)) = t

\* the substring test (t in s) of Python strings
Contains(s, t) ==
  \E i \in 0..(Len(s) - Len(t)) : SubSeq(s, i + 1, i + Len(t)) = t

\* str.split() with no argument: the maximal runs of non-whitespace
RECURSIVE SplitWords(_, _, _)
SplitWords(s, cur, acc) ==
  IF s = <<>> THEN (IF cur = <<>> THEN acc ELSE Append(acc, cur))
  ELSE IF Head(s) \in Whitespace
       THEN SplitWords(Tail(s), <<>>, IF cur = <<>> THEN acc ELSE Append(acc, cur))
       ELSE SplitWords(Tail(s), Append(cur, Head(s)), acc)

split(s) == SplitWords(s, <<>>, <<>>)

\* sep.join(words)
RECURSIVE join(_, _)
join(sep, words) ==
  IF words = <<>> THEN <<>>
  ELSE IF Len(words) = 1 THEN words[1]
  ELSE words[1] \o sep \o join(sep, Tail(words))

\* str.replace(old, new): leftmost non-overlapping occurrences, old non-empty
RECURSIVE replace(_, _, _)
replace(s, old, new) ==
  IF s = <<>> THEN <<>>
  ELSE IF StartsWith(s, old)
       THEN new \o replace(SubSeq(s, Len(old) + 1, Len(s)), old, new)
       ELSE <<Head(s)>> \o replace(Tail(s), old, new)

(***************************************************************************)
(* Title normalizer                                                         *)
(***************************************************************************)
rapport_sur_l  == <<"r","a","p","p","o","r","t"," ","s","u","r"," ","l">>
rapport_sur_le == <<"r","a","p","p","o","r","t"," ","s","u","r"," ","l","e">>

\* ANGSPEScraper._normalize_title
_normalize_title(title) ==
  IF Falsy(title) THEN <<>>
  ELSE LET lowered    == strip(lower(title))
           unpunct    == translate(lowered, RemovedPunctuation)
           collapsed  == join(<<" ">>, split(unpunct))
           folded     == replace(collapsed, rapport_sur_l, rapport_sur_le)
       IN  replace(folded, <<" ", " ">>, <<" ">>)

(***************************************************************************)
(* Deduplication tracker                                                    *)
(***************************************************************************)
\* A function returning None where it would return a publication dict.
NoPublication == [py |-> "None"]

\* _is_unique_publication without the comparison of normalized titles
_is_unique_publication_url_only(publication, seen_urls, seen_titles) ==
  IF publication = NoPublication THEN FALSE
  ELSE IF Falsy(publication.download_url) THEN FALSE
  ELSE IF Falsy(publication.title) THEN FALSE
  ELSE publication.download_url \notin seen_urls

\* _is_unique_publication without the test for an empty title
_is_unique_publication_any_title(publication, seen_urls, seen_titles) ==
  IF publication = NoPublication THEN FALSE
  ELSE IF Falsy(publication.download_url) THEN FALSE
  ELSE IF publication.download_url \in seen_urls THEN FALSE
  ELSE _normalize_title(publication.title) \notin seen_titles

\* ANGSPEScraper._is_unique_publication
_is_unique_publication(publication, seen_urls, seen_titles) ==
  IF publication = NoPublication THEN FALSE
  ELSE LET title        == publication.title
           download_url == publication.download_url
       IN  IF Falsy(download_url) THEN FALSE
           ELSE IF Falsy(title) THEN FALSE
           ELSE IF download_url \in seen_urls THEN FALSE
           ELSE IF _normalize_title(title) \in seen_titles THEN FALSE
           ELSE TRUE

\* The state of one parse_publications call: the output list and both sets.
EmptyTracker == [publications |-> <<>>, seen_urls |-> {}, seen_titles |-> {}]

\* the loop body with the title set overwritten instead of extended
Track_title_overwritten(t, publication) ==
  IF publication # NoPublication
     /\ _is_unique_publication(publication, t.seen_urls, t.seen_titles)
  THEN [publications |-> Append(t.publications, publication),
        seen_urls    |-> t.seen_urls \cup {publication.download_url},
        seen_titles  |-> {_normalize_title(publication.title)}]
  ELSE t

\* parse_publications, the body of each of its three loops: the candidate is
\* appended and both keys recorded when the check accepts it.
Track(t, publication) ==
  IF publication # NoPublication
     /\ _is_unique_publication(publication, t.seen_urls, t.seen_titles)
  THEN [publications |-> Append(t.publications, publication),
        seen_urls    |-> t.seen_urls \cup {publication.download_url},
        seen_titles  |-> t.seen_titles \cup {_normalize_title(publication.title)}]
  ELSE t

RECURSIVE TrackAll(_, _)
TrackAll(t, candidates) ==
  IF candidates = <<>> THEN t
  ELSE TrackAll(Track(t, Head(candidates)), Tail(candidates))

(***************************************************************************)
(* Field extractors                                                         *)
(***************************************************************************)
Digits == {"0", "1", "2", "3", "4", "5", "6", "7", "8", "9"}

\* s[i], or a character that matches nothing past the end of s
At(s, i) == IF i >= 1 /\ i <= Len(s) THEN s[i] ELSE "<eof>"

\* length of the longest run of characters of cs that starts at s[i]
RECURSIVE RunLen(_, _, _)
RunLen(s, i, cs) == IF At(s, i) \in cs THEN 1 + RunLen(s, i + 1, cs) ELSE 0

\* the least element of a non-empty set of integers
Least(S) == CHOOSE x \in S : \A y \in S : x <= y

\* \d{1,2} followed by sep at s[i]: the number of digits taken, 0 if no match
DayLen(s, i, sep) ==
  IF At(s, i) \in Digits /\ At(s, i + 1) \in Digits /\ At(s, i + 2) = sep THEN 2
  ELSE IF At(s, i) \in Digits /\ At(s, i + 1) = sep THEN 1
  ELSE 0

\* (\d{1,2})sep(\d{1,2})sep(\d{4}) matched at s[i]: the three groups, or <<>>
DateMatchAt(s, i, sep) ==
  LET a == DayLen(s, i, sep)
      j == i + a + 1
      b == DayLen(s, j, sep)
      k == j + b + 1
  IN  IF a > 0 /\ b > 0 /\ \A d \in 0..3 : At(s, k + d) \in Digits
      THEN <<SubSeq(s, i, i + a - 1), SubSeq(s, j, j + b - 1), SubSeq(s, k, k + 3)>>
      ELSE <<>>

\* re.search of prefix + date pattern: the groups of the leftmost match, or <<>>
DateSearch(s, prefix, sep) ==
  LET starts == {i \in 1..Len(s) :
                   /\ i + Len(prefix) - 1 <= Len(s)
                   /\ SubSeq(s, i, i + Len(prefix) - 1) = prefix
                   /\ DateMatchAt(s, i + Len(prefix), sep) # <<>>}
  IN  IF starts = {} THEN <<>>
      ELSE DateMatchAt(s, Least(starts) + Len(prefix), sep)

Poste_le == <<"P","o","s","t","é"," ","l","e"," ">>

\* ANGSPEScraper.extract_date_from_text
extract_date_from_text(text) ==
  IF Falsy(text) THEN None
  ELSE LET m1 == DateSearch(text, <<>>, "/")
           m2 == DateSearch(text, <<>>, "-")
           m3 == DateSearch(text, Poste_le, "/")
           m  == IF m1 # <<>> THEN m1 ELSE IF m2 # <<>> THEN m2 ELSE m3
       IN  IF m = <<>> THEN None
           ELSE m[1] \o <<"/">> \o m[2] \o <<"/">> \o m[3]

SizeUnits == {<<"m","o">>, <<"m","b">>, <<"g","o">>, <<"g","b">>,
              <<"k","o">>, <<"k","b">>, <<"t","o">>, <<"t","b">>}

\* \s*(unit) matched at s[q]: the unit as written, or <<>>
UnitAt(s, q) ==
  LET r == q + RunLen(s, q, Whitespace)
  IN  IF r + 1 <= Len(s) /\ lower(SubSeq(s, r, r + 1)) \in SizeUnits
      THEN SubSeq(s, r, r + 1) ELSE <<>>

\* (\d+(?:frac\d+)?)\s*(unit) matched at s[i]: <<number, unit>>, or <<>>
SizeMatchAt(s, i, frac) ==
  LET n == RunLen(s, i, Digits)
      p == i + n
      m == IF At(s, p) = frac THEN RunLen(s, p + 1, Digits) ELSE 0
      q == p + 1 + m
  IN  IF n = 0 THEN <<>>
      ELSE IF m > 0 /\ UnitAt(s, q) # <<>>
           THEN <<SubSeq(s, i, q - 1), UnitAt(s, q)>>
      ELSE IF UnitAt(s, p) # <<>>
           THEN <<SubSeq(s, i, p - 1), UnitAt(s, p)>>
      ELSE <<>>

\* re.search of one size pattern: the groups of the leftmost match, or <<>>
SizeSearch(s, frac) ==
  LET starts == {i \in 1..Len(s) : SizeMatchAt(s, i, frac) # <<>>}
  IN  IF starts = {} THEN <<>> ELSE SizeMatchAt(s, Least(starts), frac)

\* ANGSPEScraper.extract_file_size
extract_file_size(text) ==
  IF Falsy(text) THEN None
  ELSE LET m1 == SizeSearch(text, ".")
           m2 == SizeSearch(text, ",")
           m  == IF m1 # <<>> THEN m1 ELSE m2
       IN  IF m = <<>> THEN None ELSE m[1] \o <<" ">> \o m[2]

Rapport_d_activites == <<"R","a","p","p","o","r","t"," ","d","'","a","c","t","i","v","i","t","é","s">>
Autres_rapports     == <<"A","u","t","r","e","s"," ","r","a","p","p","o","r","t","s">>
Publications        == <<"P","u","b","l","i","c","a","t","i","o","n","s">>
Documents           == <<"D","o","c","u","m","e","n","t","s">>
Non_classe          == <<"N","o","n"," ","c","l","a","s","s","é">>

\* the first element of seq that satisfies Test, or default
RECURSIVE FirstThat(_, _, _)
FirstThat(seq, Test(_), default) ==
  IF seq = <<>> THEN default
  ELSE IF Test(Head(seq)) THEN Head(seq)
  ELSE FirstThat(Tail(seq), Test, default)

\* ANGSPEScraper.extract_category_from_text
extract_category_from_text(text) ==
  FirstThat(<<Rapport_d_activites, Autres_rapports, Publications, Documents>>,
            LAMBDA category : Contains(text, category), Non_classe)

(***************************************************************************)
(* The fetched page                                                         *)
(*                                                                          *)
(* A page is the sequence of the blocks under its body.  A block is an      *)
(* element [tag, class, heading, anchors, extra]: its first heading (None   *)
(* if it has none), its anchors [href, text] in document order, and the     *)
(* rest of its text.  The ancestors of an anchor are its block, the body,   *)
(* the html element and the document.                                       *)
(***************************************************************************)
NewLine == <<"\n">>

\* the non-empty texts of a sequence of optional texts
Present(texts) == SelectSeq(texts, LAMBDA t : ~Falsy(t))

\* element.get_text() of a block: its text nodes in document order
BlockText(b) ==
  join(NewLine, Present(<<b.heading>> \o [i \in 1..Len(b.anchors) |-> b.anchors[i].text]
                        \o <<b.extra>>))

\* soup.get_text()
PageText(page) == join(NewLine, Present([i \in 1..Len(page) |-> BlockText(page[i])]))

\* element.get_text(strip=True) of an element with one text node
StrippedText(text) == IF text = None THEN <<>> ELSE strip(text)

base_url == <<"h","t","t","p","s",":","/","/","a","n","g","s","p","e",".","m","a">>
target_url == <<"h","t","t","p","s",":","/","/","a","n","g","s","p","e",".","m","a","/","l","e","s","-","p","u","b","l","i","c","a","t","i","o","n","s">>

\* urllib.parse.urljoin(base_url, href) for an absolute URL, a rooted path
\* and a relative path (the base URL has an empty path)
urljoin(base, href) ==
  IF StartsWith(href, <<"h","t","t","p",":","/","/">>) \/ StartsWith(href, <<"h","t","t","p","s",":","/","/">>) THEN href
  ELSE IF StartsWith(href, <<"/">>) THEN base \o href
  ELSE base \o <<"/">> \o href

dot_pdf == <<".", "p", "d", "f">>
dot_doc == <<".", "d", "o", "c">>

\* the search for .pdf without re.I
IsPdfHref_case_sensitive(href) == Contains(href, dot_pdf)

\* re.compile(r'\.pdf', re.I).search(href)
IsPdfHref(href) == Contains(lower(href), dot_pdf)

\* re.compile(r'\.(pdf|doc|docx)', re.I).search(href)
IsDocumentHref(href) == Contains(lower(href), dot_pdf) \/ Contains(lower(href), dot_doc)

\* re.compile(r'publication|rapport|document', re.I).search(class)
IsPublicationClass(class) ==
  \/ Contains(lower(class), <<"p","u","b","l","i","c","a","t","i","o","n">>)
  \/ Contains(lower(class), <<"r","a","p","p","o","r","t">>)
  \/ Contains(lower(class), <<"d","o","c","u","m","e","n","t">>)

\* soup.find_all(['div', 'article', 'section'], class_=...)
publication_sections(page) ==
  SelectSeq(page, LAMBDA b : b.tag \in {"div", "article", "section"}
                              /\ IsPublicationClass(b.class))

\* the anchors of the page in document order, each with its block
RECURSIVE AllAnchors(_)
AllAnchors(page) ==
  IF page = <<>> THEN <<>>
  ELSE [i \in 1..Len(Head(page).anchors) |->
          [href |-> Head(page).anchors[i].href, text |-> Head(page).anchors[i].text,
           block |-> Head(page)]]
       \o AllAnchors(Tail(page))

\* soup.find_all('a', href=re.compile(r'\.pdf', re.I))
pdf_links(page) == SelectSeq(AllAnchors(page), LAMBDA a : IsPdfHref(a.href))

\* ANGSPEScraper.extract_date: the link, then its first three ancestors
extract_date(link, page) ==
  LET texts == <<link.text, BlockText(link.block), PageText(page), PageText(page)>>
      dates == [i \in 1..4 |-> extract_date_from_text(texts[i])]
  IN  FirstThat(dates, LAMBDA d : ~Falsy(d), None)

\* ANGSPEScraper.extract_category: every ancestor of the link
extract_category(link, page) ==
  LET texts == <<BlockText(link.block), PageText(page), PageText(page), PageText(page)>>
      found == SelectSeq(texts, LAMBDA t : \/ Contains(t, Rapport_d_activites)
                                           \/ Contains(t, Autres_rapports)
                                           \/ Contains(t, Publications))
  IN  IF found = <<>> THEN Non_classe ELSE extract_category_from_text(found[1])

PDF == <<"P", "D", "F">>
DOC == <<"D", "O", "C">>
Unknown == <<"U", "n", "k", "n", "o", "w", "n">>

\* the shortest link text taken as a title without looking for a heading
MinLinkTitle == 5

\* the title extract_publication_info takes: the stripped link text, or the
\* first heading of the link's parent when the text is empty or short and
\* the parent has a heading
LinkTitle(link) ==
  IF (Falsy(StrippedText(link.text)) \/ Len(StrippedText(link.text)) < MinLinkTitle)
     /\ link.block.heading # None
  THEN StrippedText(link.block.heading)
  ELSE StrippedText(link.text)

\* the dict extract_publication_info returns for a link with a href
LinkRecord(link, page, title, own_size) ==
  [title        |-> title,
   download_url |-> urljoin(base_url, link.href),
   file_size    |-> IF Falsy(own_size)
                    THEN extract_file_size(BlockText(link.block))
                    ELSE own_size,
   date_posted  |-> extract_date(link, page),
   category     |-> extract_category(link, page),
   file_type    |-> IF Contains(lower(link.href), dot_pdf) THEN PDF ELSE Unknown]

\* extract_publication_info that never looks for a heading
extract_publication_info_link_text(link, page) ==
  IF Falsy(link.href) THEN NoPublication
  ELSE LinkRecord(link, page, StrippedText(link.text), extract_file_size(link.text))

\* ANGSPEScraper.extract_publication_info
extract_publication_info(link, page) ==
  IF Falsy(link.href) THEN NoPublication
  ELSE LinkRecord(link, page, LinkTitle(link), extract_file_size(link.text))

\* ANGSPEScraper.extract_publication_from_section
extract_publication_from_section(section) ==
  LET title == IF section.heading # None THEN StrippedText(section.heading) ELSE <<>>
      links == SelectSeq(section.anchors, LAMBDA a : IsDocumentHref(a.href))
      href  == IF links = <<>> THEN <<>> ELSE links[1].href
      download_url == IF links = <<>> THEN <<>> ELSE urljoin(base_url, href)
      file_type == IF links = <<>> THEN Unknown
                   ELSE IF Contains(lower(href), dot_pdf) THEN PDF
                   ELSE IF Contains(lower(href), dot_doc) THEN DOC
                   ELSE Unknown
      section_text == BlockText(section)
  IN  IF ~Falsy(title) /\ ~Falsy(download_url)
      THEN [title        |-> title,
            download_url |-> download_url,
            file_size    |-> extract_file_size(section_text),
            date_posted  |-> extract_date_from_text(section_text),
            category     |-> extract_category_from_text(section_text),
            file_type    |-> file_type]
      ELSE NoPublication

known_publications ==
  << [title        |-> <<"R","a","p","p","o","r","t"," ","s","u","r"," ","l","'","É","t","a","t"," ","a","c","t","i","o","n","n","a","i","r","e"," ","2","0","2","3"," ","-"," ","2","0","2","4">>,
      date_posted  |-> <<"2","6","/","0","6","/","2","0","2","5">>,
      file_size    |-> <<"6",".","9","2"," ","M","o">>,
      category     |-> Rapport_d_activites,
      file_type    |-> PDF,
      download_url |-> base_url \o <<"/","p","a","t","h","/","t","o","/","r","a","p","p","o","r","t","-","e","t","a","t","-","a","c","t","i","o","n","n","a","i","r","e","-","2","0","2","3","-","2","0","2","4",".","p","d","f">>],
     [title        |-> <<"C","h","a","r","t","e"," ","d","e"," ","g","o","u","v","e","r","n","a","n","c","e"," ","p","o","u","r"," ","l","e","s"," ","E","E","P",".">>,
      date_posted  |-> <<"2","2","/","0","5","/","2","0","2","5">>,
      file_size    |-> <<"1","7","5","5"," ","k","o">>,
      category     |-> Autres_rapports,
      file_type    |-> PDF,
      download_url |-> base_url \o <<"/","p","a","t","h","/","t","o","/","c","h","a","r","t","e","-","g","o","u","v","e","r","n","a","n","c","e","-","e","e","p",".","p","d","f">>] >>

\* alternative_parsing without the search of the title in the page text
alternative_parsing_unfiltered(page) == known_publications

\* ANGSPEScraper.alternative_parsing
alternative_parsing(page) ==
  SelectSeq(known_publications, LAMBDA pub : Contains(PageText(page), pub.title))

(***************************************************************************)
(* Page parser                                                              *)
(***************************************************************************)
\* the candidates of the raw-link loop, in the order the loop takes them
LinkCandidates(page) ==
  [i \in 1..Len(pdf_links(page)) |-> extract_publication_info(pdf_links(page)[i], page)]

\* the candidates of the section loop, in the order the loop takes them
SectionCandidates(page) ==
  [i \in 1..Len(publication_sections(page)) |->
     extract_publication_from_section(publication_sections(page)[i])]

\* one loop of parse_publications over its candidates, from a tracker.  A
\* tier is the tracker after the loop, the loops entered so far (tiers) and
\* the candidates handed to the tracker so far, in order.
Tier(before, name, offered) ==
  [tracker    |-> TrackAll(before.tracker, offered),
   tiers      |-> Append(before.tiers, name),
   candidates |-> before.candidates \o offered]

NoTier == [tracker |-> EmptyTracker, tiers |-> <<>>, candidates |-> <<>>]

\* the raw-link loop when no section is found, the section loop otherwise
first_tier(page) ==
  IF publication_sections(page) = <<>>
  THEN Tier(NoTier, "links", LinkCandidates(page))
  ELSE Tier(NoTier, "sections", SectionCandidates(page))

\* the section loop, then the raw-link loop whenever it appended nothing
fallthrough_links(page, sections) ==
  IF sections.tracker.publications = <<>>
  THEN Tier(sections, "links", LinkCandidates(page))
  ELSE sections

\* if not publications: the known-record loop
fallback_tier(page, first) ==
  IF first.tracker.publications = <<>>
  THEN Tier(first, "known", alternative_parsing(page))
  ELSE first

\* the returned list with the two sets, the loops entered and the candidates
ParseResult(tier) ==
  [publications |-> tier.tracker.publications,
   seen_urls    |-> tier.tracker.seen_urls,
   seen_titles  |-> tier.tracker.seen_titles,
   tiers        |-> tier.tiers,
   candidates   |-> tier.candidates]

\* parse_publications with the raw-link loop entered whenever the section
\* loop appended nothing
parse_publications_fallthrough(page) ==
  ParseResult(fallback_tier(page,
     fallthrough_links(page, Tier(NoTier, "sections", SectionCandidates(page)))))

\* ANGSPEScraper.parse_publications.  Besides the tracker (the returned list
\* and the two sets) the result records which loops were entered (tiers) and
\* the candidates handed to the tracker, in order.
parse_publications(page) == ParseResult(fallback_tier(page, first_tier(page)))

(***************************************************************************)
(* Pages                                                                    *)
(***************************************************************************)
SecBilan ==
  [tag |-> "div", class |-> <<"p","u","b","l","i","c","a","t","i","o","n","-","i","t","e","m">>,
   heading |-> <<"B","i","l","a","n"," ","2","0","2","4">>,
   anchors |-> <<[href |-> <<"/","d","o","c","s","/","b","i","l","a","n",".","p","d","f">>, text |-> <<"T","é","l","é","c","h","a","r","g","e","r">>]>>,
   extra |-> <<"P","o","s","t","é"," ","l","e"," ","2","6","/","0","6","/","2","0","2","5"," ","-"," ","6",".","9","2"," ","M","o">>]

SecBilanUp ==
  [tag |-> "div", class |-> <<"R","a","p","p","o","r","t">>,
   heading |-> <<" ","B","I","L","A","N"," ","2","0","2","4"," ","!">>,
   anchors |-> <<[href |-> <<"/","d","o","c","s","/","b","i","l","a","n","-","v","2",".","p","d","f">>, text |-> <<"P","D","F">>]>>,
   extra |-> <<>>]

SecCharte ==
  [tag |-> "article", class |-> <<"d","o","c","u","m","e","n","t">>,
   heading |-> <<"C","h","a","r","t","e"," ","E","E","P">>,
   anchors |-> <<[href |-> <<"/","n","e","w","s">>, text |-> <<"L","i","r","e">>],
               [href |-> <<"d","o","c","s","/","b","i","l","a","n",".","p","d","f">>, text |-> <<"P","D","F">>]>>,
   extra |-> <<"1","7","5","5"," ","k","o">>]

SecCharte2 ==
  [tag |-> "section", class |-> <<"d","o","c","u","m","e","n","t","s">>,
   heading |-> <<"C","h","a","r","t","e"," ","E","E","P">>,
   anchors |-> <<[href |-> <<"/","d","o","c","s","/","c","h","a","r","t","e",".","d","o","c">>, text |-> <<"W","o","r","d">>]>>,
   extra |-> <<"1","2","-","3","-","2","0","2","4">>]

SecEmpty ==
  [tag |-> "div", class |-> <<"p","u","b","l","i","c","a","t","i","o","n">>,
   heading |-> None,
   anchors |-> <<[href |-> <<"/","d","o","c","s","/","x",".","p","d","f">>, text |-> <<"x">>]>>,
   extra |-> <<>>]

LinkList ==
  [tag |-> "ul", class |-> <<"l","i","s","t">>,
   heading |-> None,
   anchors |-> <<[href |-> <<"/","d","o","c","s","/","b","i","l","a","n",".","p","d","f">>, text |-> <<>>],
               [href |-> <<"/","d","o","c","s","/","b","i","l","a","n",".","p","d","f">>, text |-> <<"B","i","l","a","n"," ","2","0","2","4">>],
               [href |-> <<"/","d","o","c","s","/","b","i","l","a","n",".","p","d","f">>, text |-> <<"C","h","a","r","t","e"," ","E","E","P">>],
               [href |-> <<"/","d","o","c","s","/","c","h","a","r","t","e",".","p","d","f","?","v","=","2">>, text |-> <<"B","I","L","A","N"," ","2","0","2","4","!">>],
               [href |-> <<"/","d","o","c","s","/","c","h","a","r","t","e",".","p","d","f">>, text |-> <<"C","h","a","r","t","e"," ","E","E","P">>],
               [href |-> <<"/","d","o","c","s","/","n","o","t","e",".","P","D","F">>, text |-> <<"N","o","t","e">>]>>,
   extra |-> <<>>]

LinkHead ==
  [tag |-> "p", class |-> <<"p","u","b","l","i","c","a","t","i","o","n">>,
   heading |-> <<"S","t","a","t","u","t","s"," ","2","0","2","3">>,
   anchors |-> <<[href |-> <<"h","t","t","p","s",":","/","/","c","d","n",".","e","x","a","m","p","l","e",".","o","r","g","/","s",".","p","d","f">>, text |-> <<"P","D","F">>],
               [href |-> <<"/","d","o","c","s","/","p","l","a","n",".","d","o","c","x">>, text |-> <<"P","l","a","n"," ","d","'","a","c","t","i","o","n">>]>>,
   extra |-> <<"P","u","b","l","i","c","a","t","i","o","n","s"," ","3",",","5"," ","M","o"," ","0","1","/","0","2","/","2","0","2","3">>]

TextKnown1 ==
  [tag |-> "div", class |-> <<"c","o","n","t","e","n","t">>,
   heading |-> None,
   anchors |-> <<>>,
   extra |-> <<"R","a","p","p","o","r","t"," ","s","u","r"," ","l","'","É","t","a","t"," ","a","c","t","i","o","n","n","a","i","r","e"," ","2","0","2","3"," ","-"," ","2","0","2","4">>]

TextKnown2 ==
  [tag |-> "span", class |-> <<"r","a","p","p","o","r","t">>,
   heading |-> None,
   anchors |-> <<>>,
   extra |-> <<"C","h","a","r","t","e"," ","d","e"," ","g","o","u","v","e","r","n","a","n","c","e"," ","p","o","u","r"," ","l","e","s"," ","E","E","P",".">>]

BlockPool == {SecBilan, SecBilanUp, SecCharte, SecCharte2, SecEmpty,
              LinkList, LinkHead, TextKnown1, TextKnown2}

\* the most blocks of a page
MaxBlocks == 2

\* the pages of at most n blocks of the pool
RECURSIVE PagesUpTo(_)
PagesUpTo(n) ==
  IF n = 0 THEN {<<>>}
  ELSE PagesUpTo(n - 1)
       \cup {<<b>> \o page : b \in BlockPool,
                            page \in {q \in PagesUpTo(n - 1) : Len(q) = n - 1}}

Pages == PagesUpTo(MaxBlocks)

(***************************************************************************)
(* Analyzer                                                                 *)
(***************************************************************************)
DigitValue(c) ==
  CASE c = "0" -> 0 [] c = "1" -> 1 [] c = "2" -> 2 [] c = "3" -> 3 [] c = "4" -> 4
    [] c = "5" -> 5 [] c = "6" -> 6 [] c = "7" -> 7 [] c = "8" -> 8 [] c = "9" -> 9

DigitChar(d) == <<"0", "1", "2", "3", "4", "5", "6", "7", "8", "9">>[d + 1]

\* int(s) accepts s: a non-empty run of digits (no sign, no padding here)
IsInt(s) == s # <<>> /\ \A i \in 1..Len(s) : s[i] \in Digits

\* int(s) for a run of digits
RECURSIVE IntOf(_)
IntOf(s) == IF s = <<>> THEN 0 ELSE 10 * IntOf(SubSeq(s, 1, Len(s) - 1)) + DigitValue(s[Len(s)])

\* str(n) for n >= 0
RECURSIVE StrOf(_)
StrOf(n) == IF n < 10 THEN <<DigitChar(n)>> ELSE Append(StrOf(n \div 10), DigitChar(n % 10))

\* s.split('/')[-1]: what follows the last slash
RECURSIVE AfterLastSlash(_)
AfterLastSlash(s) ==
  IF Contains(s, <<"/">>)
  THEN AfterLastSlash(SubSeq(s, Least({i \in 1..Len(s) : s[i] = "/"}) + 1, Len(s)))
  ELSE s

\* A dict key that is an int and a dict key that is a str never compare equal
\* (2025 is not "2025"): the keys of the year mapping carry their type.
IntKey(n) == [int |-> n]
StrKey(s) == [str |-> s]

\* dict(Counter(values))
Counter(values) ==
  [v \in {values[i] : i \in 1..Len(values)} |->
     Cardinality({i \in 1..Len(values) : values[i] = v})]

\* the greatest element of a non-empty set of integers
Greatest(S) == CHOOSE x \in S : \A y \in S : x >= y

\* the value analyze_publications returns for an empty list
NoPublicationsFound == [error |-> "No publications found"]

\* the years list of analyze_publications: the dated records whose date has a
\* slash and whose last component int() accepts
YearsOf(publications) ==
  LET dated == SelectSeq(publications,
                 LAMBDA pub : /\ ~Falsy(pub.date_posted)
                              /\ Contains(pub.date_posted, <<"/">>)
                              /\ IsInt(AfterLastSlash(pub.date_posted)))
  IN  [i \in 1..Len(dated) |-> IntOf(AfterLastSlash(dated[i].date_posted))]

\* the records the latest-publication loop visits before it stops: up to and
\* including the first whose date contains str(latest_year)
RECURSIVE VisitedForLatest(_, _)
VisitedForLatest(publications, latest_year) ==
  IF publications = <<>> THEN <<>>
  ELSE IF Head(publications).date_posted # None
          /\ Contains(Head(publications).date_posted, StrOf(latest_year))
       THEN <<Head(publications)>>
       ELSE <<Head(publications)>> \o VisitedForLatest(Tail(publications), latest_year)

\* 10 ** k
RECURSIVE Pow10(_)
Pow10(k) == IF k = 0 THEN 1 ELSE 10 * Pow10(k - 1)

\* re.search(r'(\d+(?:\.\d+)?)', s): the digits before and after the period
\* of the leftmost number, or <<>> (search gives None and .group raises)
FirstNumber(s) ==
  LET starts == {i \in 1..Len(s) : s[i] \in Digits}
      i == Least(starts)
      n == RunLen(s, i, Digits)
      m == IF At(s, i + n) = "." THEN RunLen(s, i + n + 1, Digits) ELSE 0
  IN  IF starts = {} THEN <<>>
      ELSE <<SubSeq(s, i, i + n - 1), SubSeq(s, i + n + 1, i + n + m)>>

\* Sizes are counted in parts of a megabyte: 1024 * 100 parts make one, so
\* that a number of up to two decimals is whole both as megabytes and, divided
\* by 1024, as kilobytes.
PartsPerMB == 1024 * 100

\* float(number) * parts, for a number of at most two decimals
Parts(number, parts) ==
  IntOf(number[1]) * parts + (IntOf(number[2]) * parts) \div Pow10(Len(number[2]))

Mo == <<"M", "o">>
MB == <<"M", "B">>
ko == <<"k", "o">>
KB == <<"K", "B">>

\* what one record adds to the sizes list, in parts: <<size>>, or <<>> when
\* the record has no size, its unit is none of the four, or float() raises
SizeOf(pub) ==
  IF Falsy(pub.file_size) THEN <<>>
  ELSE IF Contains(pub.file_size, Mo) \/ Contains(pub.file_size, MB)
       THEN IF FirstNumber(pub.file_size) = <<>> THEN <<>>
            ELSE <<Parts(FirstNumber(pub.file_size), PartsPerMB)>>
  ELSE IF Contains(pub.file_size, ko) \/ Contains(pub.file_size, KB)
       THEN IF FirstNumber(pub.file_size) = <<>> THEN <<>>
            ELSE <<Parts(FirstNumber(pub.file_size), 100)>>
  ELSE <<>>

\* the sizes list of analyze_publications
RECURSIVE SizesOf(_)
SizesOf(publications) ==
  IF publications = <<>> THEN <<>>
  ELSE SizeOf(Head(publications)) \o SizesOf(Tail(publications))

RECURSIVE Sum(_)
Sum(values) == IF values = <<>> THEN 0 ELSE Head(values) + Sum(Tail(values))

\* round(total / divisor) to the nearest integer, a tie to the even one, as
\* the format specification .2f rounds a value that is exact in binary
RoundHalfEven(total, divisor) ==
  LET h == total \div divisor
      r == total % divisor
  IN  IF 2 * r > divisor THEN h + 1
      ELSE IF 2 * r = divisor THEN h + (h % 2)
      ELSE h

\* f"{hundredths / 100:.2f} MB"
FormatMB(hundredths) ==
  StrOf(hundredths \div 100) \o <<".">> \o <<DigitChar((hundredths \div 10) % 10)>>
  \o <<DigitChar(hundredths % 10)>> \o <<" ", "M", "B">>

\* f"{sum(sizes)/len(sizes):.2f} MB", or None for an empty sizes list
AverageFileSize(sizes) ==
  IF sizes = <<>> THEN None
  ELSE FormatMB(RoundHalfEven(Sum(sizes), Len(sizes) * 1024))

\* the latest-publication loop over the records it visited; raised: the
\* substring test met a record whose date_posted is None (TypeError), which
\* nothing in the method catches
LatestOf(visited, latest_year) ==
  [raised |-> \E i \in 1..Len(visited) : visited[i].date_posted = None,
   latest_publication |->
     IF visited # <<>> /\ visited[Len(visited)].date_posted # None
        /\ Contains(visited[Len(visited)].date_posted, StrOf(latest_year))
     THEN visited[Len(visited)] ELSE NoPublication]

\* the dict analyze_publications returns for a non-empty list
AnalysisOf(publications, years, latest) ==
  [raised   |-> latest.raised,
   analysis |->
     [total_publications   |-> Len(publications),
      categories           |-> Counter([i \in 1..Len(publications) |->
                                          publications[i].category]),
      file_types           |-> Counter([i \in 1..Len(publications) |->
                                          publications[i].file_type]),
      publications_by_year |-> Counter([i \in 1..Len(years) |-> IntKey(years[i])]),
      average_file_size    |-> AverageFileSize(SizesOf(publications)),
      latest_publication   |-> latest.latest_publication,
      publications_list    |-> publications]]

\* analyze_publications after the years list is built
WithYears(publications, years) ==
  AnalysisOf(publications, years,
             IF years = <<>> THEN LatestOf(<<>>, 0)
             ELSE LatestOf(VisitedForLatest(publications,
                                            Greatest({years[i] : i \in 1..Len(years)})),
                           Greatest({years[i] : i \in 1..Len(years)})))

\* ANGSPEScraper.analyze_publications.  raised: the method ended in the
\* TypeError of the latest-publication loop.
analyze_publications(publications) ==
  IF publications = <<>> THEN [raised |-> FALSE, analysis |-> NoPublicationsFound]
  ELSE WithYears(publications, YearsOf(publications))

(***************************************************************************)
(* Persistence                                                              *)
(*                                                                          *)
(* A file is [exists, content]; its content is the sequence of the items    *)
(* written to it.  open(name, 'w') creates or truncates the file; the text  *)
(* of json.dump / csv.DictWriter is written from offset 0 when the file is  *)
(* closed, over whatever the file holds by then.                            *)
(***************************************************************************)
\* the year in the file name the endpoints of app/main.py read
ServedYear == 2025

\* the last calendar year of the model
LastYear == 2026

Years == ServedYear..LastYear

FileNames == [kind : {"publications", "analysis", "csv"}, year : Years]

NoFile == [exists |-> FALSE, content |-> <<>>]

\* open(filename, 'w')
Truncated == [exists |-> TRUE, content |-> <<>>]

\* the content of a file after text is written at its start
Overlay(old, text) ==
  IF Len(old) > Len(text) THEN text \o SubSeq(old, Len(text) + 1, Len(old)) ELSE text

\* json.dump of an analysis and json.load of the text: a dict key that is an
\* int is written as a string and read as one
JsonAnalysis(analysis) ==
  IF analysis = NoPublicationsFound THEN analysis
  ELSE [analysis EXCEPT !.publications_by_year =
          [k \in {StrKey(StrOf(y.int)) : y \in DOMAIN analysis.publications_by_year} |->
             analysis.publications_by_year[IntKey(IntOf(k.str))]]]

\* the text save_results(format='json') writes to angspe_publications_<year>.json
PublicationsJson(publications, analysis, scraped_at) ==
  [i \in 1..Len(publications) |-> [k |-> "publication", v |-> publications[i]]]
  \o << [k |-> "analysis", v |-> JsonAnalysis(analysis)],
        [k |-> "trailer",
         v |-> [scraped_at |-> scraped_at, source_url |-> target_url,
                total_unique_publications |-> Len(publications)]] >>

\* the text save_results(format='json') writes to angspe_analysis_<year>.json
AnalysisJson(analysis) == << [k |-> "analysis", v |-> JsonAnalysis(analysis)] >>

\* csv: None is written as the empty string
CsvField(v) == IF v = None THEN <<>> ELSE v

\* the text save_results(format='csv') writes: a header, then a row a record
CsvText(publications) ==
  << [k |-> "header",
      v |-> IF publications[1] \in {known_publications[i] : i \in 1..2}
            THEN <<"title", "date_posted", "file_size", "category", "file_type",
                   "download_url">>
            ELSE <<"title", "download_url", "file_size", "date_posted", "category",
                   "file_type">>] >>
  \o [i \in 1..Len(publications) |->
        [k |-> "row",
         v |-> [f \in DOMAIN publications[i] |-> CsvField(publications[i][f])]]]

\* json.load of angspe_publications_<year>.json: ok is FALSE where it raises
LoadSnapshot(content) ==
  LET n == Len(content)
      ok == /\ n >= 2
            /\ content[n].k = "trailer"
            /\ content[n - 1].k = "analysis"
            /\ \A i \in 1..(n - 2) : content[i].k = "publication"
  IN  IF ok
      THEN [ok |-> TRUE,
            publications |-> [i \in 1..(n - 2) |-> content[i].v],
            analysis     |-> content[n - 1].v,
            scraped_at   |-> content[n].v.scraped_at,
            total_unique_publications |-> content[n].v.total_unique_publications]
      ELSE [ok |-> FALSE, publications |-> <<>>, analysis |-> NoPublicationsFound,
            scraped_at |-> 0, total_unique_publications |-> 0]

\* ANGSPEScraper.get_existing_publications_count
get_existing_publications_count(fs, current_year) ==
  LET file == fs[[kind |-> "publications", year |-> current_year]]
  IN  IF ~file.exists THEN 0
      ELSE IF ~LoadSnapshot(file.content).ok THEN 0
      ELSE Len(LoadSnapshot(file.content).publications)

(***************************************************************************)
(* Fetcher                                                                  *)
(***************************************************************************)
\* what session.get gives: a transport error or a status and a body; the
\* body is the empty text or the markup of a page
HttpResponse(error, status, empty, page) ==
  [error |-> error, status |-> status, text |-> [empty |-> empty, page |-> page]]

PageTwo       == <<SecBilan, SecCharte2>>
PageLinks     == <<LinkHead>>
PageUndated   == <<SecBilanUp, SecCharte2>>
PageNoRecords == <<SecEmpty>>

Responses ==
  { HttpResponse("none", 200, FALSE, PageTwo),
    HttpResponse("none", 200, FALSE, PageLinks),
    HttpResponse("none", 200, FALSE, PageUndated),
    HttpResponse("none", 200, FALSE, PageNoRecords),
    HttpResponse("none", 200, TRUE, <<>>),
    HttpResponse("none", 503, FALSE, PageLinks),
    HttpResponse("ConnectionError", 0, TRUE, <<>>),
    HttpResponse("Timeout", 0, TRUE, <<>>) }

\* the value of fetch_page_html when it returns None
NoHtml == [none |-> TRUE]

\* fetch_page_html without raise_for_status
fetch_page_html_any_status(response) ==
  IF response.error # "none" THEN NoHtml ELSE response.text

\* ANGSPEScraper.fetch_page_html: a RequestException of session.get or of
\* raise_for_status gives None
fetch_page_html(response) ==
  IF response.error # "none" THEN NoHtml
  ELSE IF response.status >= 400 THEN NoHtml
  ELSE response.text

\* not html_content
NoContent(html_content) == html_content = NoHtml \/ html_content.empty

(***************************************************************************)
(* Pipeline orchestrator: one process per invocation of scraper.py          *)
(***************************************************************************)
\* the invocations that may be in progress at once
Runs == {1, 2}

\* the most invocations of scraper.py in a behaviour
MaxRuns == 2

\* a run that is not in progress
Ended == {"idle", "failed", "crashed", "crashed_summary", "done"}

IdleRun ==
  [pc |-> "idle", existing_count |-> 0, response |-> HttpResponse("none", 0, TRUE, <<>>),
   fetches |-> 0, publications |-> <<>>, analysis |-> NoPublicationsFound,
   summary |-> "none", scraped_at |-> 0, current_year |-> ServedYear,
   saved |-> {}, files_before |-> [f \in FileNames |-> NoFile]]

NoSnapshot == [seq |-> 0, writing |-> FALSE, publications |-> <<>>,
               analysis |-> NoPublicationsFound, scraped_at |-> 0]

NoResponse == [endpoint |-> "none", status |-> 0, body |-> [none |-> TRUE],
               seq |-> 0, writing |-> FALSE]

PipelineInit ==
  /\ year = ServedYear
  /\ files = [f \in FileNames |-> NoFile]
  /\ run = [r \in Runs |-> IdleRun]
  /\ nruns = 0
  /\ resp = NoResponse
  /\ last = NoSnapshot

\* the line run_full_scrape prints after comparing the counts
Summary(count, existing_count) ==
  IF count = existing_count THEN "no new publications"
  ELSE IF existing_count > 0 /\ count > existing_count THEN "new publications"
  ELSE IF existing_count > 0 /\ count < existing_count THEN "publications removed"
  ELSE "found"

\* main and run_full_scrape up to the fetch: the count of the snapshot on disk
Start(r) ==
  /\ run[r].pc \in Ended
  /\ nruns < MaxRuns
  /\ nruns' = nruns + 1
  /\ run' = [run EXCEPT ![r] =
       [IdleRun EXCEPT !.pc = "fetch",
                       !.existing_count = get_existing_publications_count(files, year),
                       !.scraped_at = nruns + 1,
                       !.files_before = files]]
  /\ UNCHANGED <<nt, pp, year, files, resp, last>>

\* run_full_scrape after analyze_publications: an exception of the analysis
\* ends the process before anything is saved
Analysed(before, response, publications, analysed) ==
  [before EXCEPT !.pc = IF analysed.raised THEN "crashed" ELSE "json_open",
                 !.response = response,
                 !.fetches = @ + 1,
                 !.publications = publications,
                 !.summary = Summary(Len(publications), before.existing_count),
                 !.analysis = IF analysed.raised THEN NoPublicationsFound
                              ELSE analysed.analysis]

\* run_full_scrape after parse_publications
Scraped(before, response, publications) ==
  Analysed(before, response, publications, analyze_publications(publications))

\* run_full_scrape after fetch_page_html.  Without content it returns
\* (None, None) and main prints the failure.
Fetched(before, response, html_content) ==
  IF NoContent(html_content)
  THEN [before EXCEPT !.pc = "failed", !.response = response, !.fetches = @ + 1]
  ELSE Scraped(before, response, parse_publications(html_content.page).publications)

\* run_full_scrape from the fetch to the analysis
Fetch(r) ==
  /\ run[r].pc = "fetch"
  /\ \E response \in Responses :
       run' = [run EXCEPT ![r] = Fetched(run[r], response, fetch_page_html(response))]
  /\ UNCHANGED <<nt, pp, year, files, nruns, resp, last>>

\* save_results(format='json'): open the publications file of the current year
JsonOpen(r) ==
  /\ run[r].pc = "json_open"
  /\ run' = [run EXCEPT ![r].pc = "json_write", ![r].current_year = year]
  /\ files' = [files EXCEPT ![[kind |-> "publications", year |-> year]] = Truncated]
  /\ last' = [last EXCEPT !.writing = TRUE]
  /\ UNCHANGED <<nt, pp, year, nruns, resp>>

\* save_results(format='json'): json.dump of the snapshot and close
JsonWrite(r) ==
  /\ run[r].pc = "json_write"
  /\ LET name == [kind |-> "publications", year |-> run[r].current_year]
         text == PublicationsJson(run[r].publications, run[r].analysis, run[r].scraped_at)
     IN  files' = [files EXCEPT ![name] =
                     [exists |-> TRUE, content |-> Overlay(files[name].content, text)]]
  /\ run' = [run EXCEPT ![r].pc = "analysis_open", ![r].saved = @ \cup {"publications"}]
  /\ last' = [seq |-> last.seq + 1, writing |-> FALSE,
              publications |-> run[r].publications,
              analysis |-> JsonAnalysis(run[r].analysis),
              scraped_at |-> run[r].scraped_at]
  /\ UNCHANGED <<nt, pp, year, nruns, resp>>

\* save_results(format='json'): open the analysis file
AnalysisOpen(r) ==
  /\ run[r].pc = "analysis_open"
  /\ run' = [run EXCEPT ![r].pc = "analysis_write"]
  /\ files' = [files EXCEPT ![[kind |-> "analysis", year |-> run[r].current_year]] = Truncated]
  /\ UNCHANGED <<nt, pp, year, nruns, resp, last>>

\* save_results(format='json'): json.dump of the analysis and close
AnalysisWrite(r) ==
  /\ run[r].pc = "analysis_write"
  /\ LET name == [kind |-> "analysis", year |-> run[r].current_year]
     IN  files' = [files EXCEPT ![name] =
                     [exists |-> TRUE,
                      content |-> Overlay(files[name].content, AnalysisJson(run[r].analysis))]]
  /\ run' = [run EXCEPT ![r].pc = "csv_open", ![r].saved = @ \cup {"analysis"}]
  /\ UNCHANGED <<nt, pp, year, nruns, resp, last>>

\* save_results(format='csv'): open the CSV file, only for a non-empty list
CsvOpen(r) ==
  /\ run[r].pc = "csv_open"
  /\ run[r].publications # <<>>
  /\ run' = [run EXCEPT ![r].pc = "csv_write", ![r].current_year = year]
  /\ files' = [files EXCEPT ![[kind |-> "csv", year |-> year]] = Truncated]
  /\ UNCHANGED <<nt, pp, year, nruns, resp, last>>

\* save_results(format='csv'): the header, the rows and close
CsvWrite(r) ==
  /\ run[r].pc = "csv_write"
  /\ LET name == [kind |-> "csv", year |-> run[r].current_year]
     IN  files' = [files EXCEPT ![name] =
                     [exists |-> TRUE,
                      content |-> Overlay(files[name].content, CsvText(run[r].publications))]]
  /\ run' = [run EXCEPT ![r].pc = "finish", ![r].saved = @ \cup {"csv"}]
  /\ UNCHANGED <<nt, pp, year, nruns, resp, last>>

\* the rest of run_full_scrape (for an empty list save_results(format='csv')
\* writes nothing) and main: print_analysis_summary indexes
\* analysis['total_publications'], a KeyError on the analysis of an empty list
Finish(r) ==
  /\ \/ run[r].pc = "finish"
     \/ run[r].pc = "csv_open" /\ run[r].publications = <<>>
  /\ run' = [run EXCEPT ![r].pc = IF run[r].analysis = NoPublicationsFound
                                  THEN "crashed_summary" ELSE "done"]
  /\ UNCHANGED <<nt, pp, year, files, nruns, resp, last>>

\* the calendar year changes
NewYear ==
  /\ year < LastYear
  /\ year' = year + 1
  /\ UNCHANGED <<nt, pp, files, run, nruns, resp, last>>

(***************************************************************************)
(* Serving layer (app/main.py)                                              *)
(***************************************************************************)
\* the file every read endpoint opens: data/angspe_publications_2025.json
ServedFile == [kind |-> "publications", year |-> ServedYear]

\* the status an endpoint answers with.  The HTTPException(404) for a
\* missing file is raised inside the try block, whose handler catches every
\* Exception and raises HTTPException(500); so does an error of json.load.
ReadStatus(fs) ==
  IF ~fs[ServedFile].exists THEN 500
  ELSE IF ~LoadSnapshot(fs[ServedFile].content).ok THEN 500
  ELSE 200

Answer(endpoint, status, body) ==
  [endpoint |-> endpoint, status |-> status,
   body |-> IF status = 200 THEN body ELSE [error |-> "Internal server error"],
   seq |-> last.seq, writing |-> last.writing]

\* get_publications
GetPublications ==
  /\ resp' = Answer("/api/publications", ReadStatus(files),
                    [publications |-> LoadSnapshot(files[ServedFile].content).publications])
  /\ UNCHANGED <<nt, pp, year, files, run, nruns, last>>

\* get_analysis
GetAnalysis ==
  /\ resp' = Answer("/api/analysis", ReadStatus(files),
                    [analysis |-> LoadSnapshot(files[ServedFile].content).analysis])
  /\ UNCHANGED <<nt, pp, year, files, run, nruns, last>>

\* get_status (no cron status files)
GetStatus ==
  /\ resp' = Answer("/api/status", ReadStatus(files),
                    [last_scrape |-> LoadSnapshot(files[ServedFile].content).scraped_at,
                     total_publications |->
                       LoadSnapshot(files[ServedFile].content).total_unique_publications])
  /\ UNCHANGED <<nt, pp, year, files, run, nruns, last>>

(***************************************************************************)
(* Specifications                                                           *)
(***************************************************************************)
\* the title normalizer and the tracker applied to a pair of titles
NormIdle == [pc |-> "idle", x |-> <<>>, y |-> <<>>, nx |-> <<>>, ny |-> <<>>,
             nnx |-> <<>>, kept |-> <<>>]

\* the parser applied to a page
ParseIdle == [pc |-> "idle", page |-> <<>>, result |-> parse_publications(<<>>)]

TitleChunks ==
  { <<"R","a","p","p","o","r","t"," ","S","u","r"," ","L">>,
    <<"r","a","p","p","o","r","t"," ","s","u","r"," ","l">>,
    <<"É","c","o","l","e">>,
    <<"e","a","u">>,
    <<"'">>, <<"e">>, <<" ">>, <<"!">> }

\* the most chunks of a title
MaxChunks == 3

RECURSIVE TitlesUpTo(_)
TitlesUpTo(n) ==
  IF n = 0 THEN {<<>>}
  ELSE {c \o t : c \in TitleChunks \cup {<<>>}, t \in TitlesUpTo(n - 1)}

ElidedTitle    == <<"R","a","p","p","o","r","t"," ","S","u","r"," ","L","'","É","c","o","l","e">>
NonElidedTitle == <<"r","a","p","p","o","r","t"," ","s","u","r"," ","l","e"," ","e","c","o","l","e">>

\* a publication of the given title and URL path
Candidate(title, path) ==
  [title |-> title, download_url |-> base_url \o path, file_size |-> None,
   date_posted |-> None, category |-> Non_classe, file_type |-> PDF]

InitNorm ==
  /\ nt \in {[NormIdle EXCEPT !.pc = "start", !.x = x, !.y = y] :
               x \in TitlesUpTo(MaxChunks), y \in {NonElidedTitle, <<"e", "a", "u">>}}
  /\ pp = ParseIdle
  /\ PipelineInit

\* _normalize_title of both titles
NormalizeTitles ==
  /\ nt.pc = "start"
  /\ nt' = [nt EXCEPT !.pc = "normalized", !.nx = _normalize_title(nt.x),
                      !.ny = _normalize_title(nt.y)]
  /\ UNCHANGED <<pp, year, files, run, nruns, resp, last>>

\* _normalize_title of a normalized title
NormalizeAgain ==
  /\ nt.pc = "normalized"
  /\ nt' = [nt EXCEPT !.pc = "renormalized", !.nnx = _normalize_title(nt.nx)]
  /\ UNCHANGED <<pp, year, files, run, nruns, resp, last>>

\* the tracker on two candidates of different URLs that have the two titles
TrackTitles ==
  /\ nt.pc = "renormalized"
  /\ nt' = [nt EXCEPT !.pc = "tracked",
              !.kept = TrackAll(EmptyTracker,
                                <<Candidate(nt.x, <<"/", "x", ".", "p", "d", "f">>),
                                  Candidate(nt.y, <<"/", "y", ".", "p", "d", "f">>)>>).publications]
  /\ UNCHANGED <<pp, year, files, run, nruns, resp, last>>

NextNorm == NormalizeTitles \/ NormalizeAgain \/ TrackTitles

SpecNorm == InitNorm /\ [][NextNorm]_vars

InitParse ==
  /\ nt = NormIdle
  /\ pp \in {[ParseIdle EXCEPT !.pc = "fetched", !.page = page] : page \in Pages}
  /\ PipelineInit

\* parse_publications on the fetched page
ParsePage ==
  /\ pp.pc = "fetched"
  /\ pp' = [pp EXCEPT !.pc = "parsed", !.result = parse_publications(pp.page)]
  /\ UNCHANGED <<nt, year, files, run, nruns, resp, last>>

NextParse == ParsePage

SpecParse == InitParse /\ [][NextParse]_vars

\* the analyzer and the snapshot writer applied to a publication list.  A
\* record of the list has the date and the size of one of these kinds, which
\* the extractors can all produce.
PubKinds ==
  << [date_posted |-> None, file_size |-> None],
     [date_posted |-> <<"0","1","/","0","1","/","2","0","2","4">>,
      file_size   |-> <<"1","0"," ","M","o">>],
     [date_posted |-> <<"1","5","/","0","6","/","2","0","2","5">>,
      file_size   |-> <<"5","1","2"," ","k","o">>],
     [date_posted |-> <<"2","0","/","0","6","/","2","0","2","5">>,
      file_size   |-> <<"2"," ","G","o">>],
     [date_posted |-> <<"1","5","/","0","6","/","2","0","2","5">>,
      file_size   |-> <<"1","0"," ","m","o">>],
     [date_posted |-> None, file_size |-> <<"6",".","9","2"," ","M","o">>],
     [date_posted |-> <<"1","/","2","/","2","0","2","5">>,
      file_size   |-> <<"1","7","5","5"," ","K","B">>],
     [date_posted |-> <<"3","1","/","1","2","/","2","0","2","3">>,
      file_size   |-> <<"1","2","8"," ","k","o">>] >>

\* the i-th record of a list, of the given kind
Pub(i, kind) ==
  [title        |-> <<"D","o","c"," ">> \o StrOf(i),
   download_url |-> base_url \o <<"/">> \o StrOf(i) \o dot_pdf,
   file_size    |-> PubKinds[kind].file_size,
   date_posted  |-> PubKinds[kind].date_posted,
   category     |-> Non_classe,
   file_type    |-> PDF]

\* the most records of a list
MaxList == 3

PubLists ==
  UNION {{[i \in 1..n |-> Pub(i, kinds[i])] : kinds \in [1..n -> 1..Len(PubKinds)]} :
           n \in 0..MaxList}

NotAnalysed == [raised |-> FALSE, analysis |-> NoPublicationsFound]

InitAnalyze ==
  /\ nt = NormIdle
  /\ pp \in {[pc |-> "listed", publications |-> l, analysed |-> NotAnalysed,
              loaded |-> LoadSnapshot(<<>>)] : l \in PubLists}
  /\ PipelineInit

\* analyze_publications on the list
AnalyzeList ==
  /\ pp.pc = "listed"
  /\ pp' = [pp EXCEPT !.pc = "analysed",
                      !.analysed = analyze_publications(pp.publications)]
  /\ UNCHANGED <<nt, year, files, run, nruns, resp, last>>

\* save_results(format='json') of the list and its analysis, then json.load
\* of the file; an analysis that raised ends the process before
SaveAndLoad ==
  /\ pp.pc = "analysed"
  /\ ~pp.analysed.raised
  /\ pp' = [pp EXCEPT !.pc = "loaded",
              !.loaded = LoadSnapshot(PublicationsJson(pp.publications,
                                                       pp.analysed.analysis, 1))]
  /\ UNCHANGED <<nt, year, files, run, nruns, resp, last>>

NextAnalyze == AnalyzeList \/ SaveAndLoad

SpecAnalyze == InitAnalyze /\ [][NextAnalyze]_vars

\* the two text extractors applied to a text made of a few chunks
SizeChunks ==
  { <<"F","i","c","h","i","e","r"," ","6">>, <<".","9","2">>, <<",","9","2">>,
    <<" ","M","o">>, <<"1","7","5","5","k","o">>, <<" "," ","g","b">>,
    <<" ","d","i","s","p","o","n","i","b","l","e">>, <<"1","2",".">> }

DateChunks ==
  { Poste_le, <<"2","6","/">>, <<"0","6","/">>, <<"1","/">>, <<"2","6","-">>,
    <<"0","6","-">>, <<"2","0","2","5">>, <<"2","0","2">> }

RECURSIVE TextsUpTo(_, _)
TextsUpTo(chunks, n) ==
  IF n = 0 THEN {<<>>}
  ELSE {c \o t : c \in chunks \cup {<<>>}, t \in TextsUpTo(chunks, n - 1)}

TextIdle == [pc |-> "text", text |-> <<>>, size |-> None, date |-> None]

InitText ==
  /\ nt \in {[TextIdle EXCEPT !.text = t] :
               t \in TextsUpTo(SizeChunks, MaxChunks) \cup TextsUpTo(DateChunks, MaxChunks)}
  /\ pp = ParseIdle
  /\ PipelineInit

\* extract_file_size and extract_date_from_text of the text
ExtractFromText ==
  /\ nt.pc = "text"
  /\ nt' = [nt EXCEPT !.pc = "extracted",
                      !.size = extract_file_size(nt.text),
                      !.date = extract_date_from_text(nt.text)]
  /\ UNCHANGED <<pp, year, files, run, nruns, resp, last>>

NextText == ExtractFromText

SpecText == InitText /\ [][NextText]_vars

\* the tracker of one parse_publications call offered candidates one by one
CandidatePool ==
  {Candidate(title, path) :
     title \in {<<"B","i","l","a","n"," ","2","0","2","4">>,
                <<"B","I","L","A","N"," ","2","0","2","4","!">>,
                <<"C","h","a","r","t","e"," ","E","E","P">>,
                <<>>},
     path \in {<<"/","a",".","p","d","f">>, <<"/","b",".","p","d","f">>,
               <<"/","c",".","p","d","f">>}}
  \cup {NoPublication,
        [Candidate(<<"C","h","a","r","t","e"," ","E","E","P">>, <<>>)
           EXCEPT !.download_url = <<>>]}

\* the most candidates offered to the tracker
MaxOffers == 4

\* candidate, accepted: the last candidate offered and whether it was kept;
\* rejected: the candidates refused so far; again: the last
\* candidate had been refused before
TrackIdle ==
  [pc |-> "tracking", tracker |-> EmptyTracker, offered |-> 0,
   candidate |-> NoPublication, accepted |-> FALSE, rejected |-> {}, again |-> FALSE]

InitTrack ==
  /\ nt = NormIdle
  /\ pp = TrackIdle
  /\ PipelineInit

\* the verdict of `publication and self._is_unique_publication(...)`, and
\* the tracker after the loop body
AfterOffer(before, c, accepted) ==
  [pc        |-> "tracking",
   tracker   |-> Track(before.tracker, c),
   offered   |-> before.offered + 1,
   candidate |-> c,
   accepted  |-> accepted,
   rejected  |-> IF accepted THEN before.rejected ELSE before.rejected \cup {c},
   again     |-> c \in before.rejected]

\* one turn of a loop of parse_publications
OfferCandidate ==
  /\ pp.pc = "tracking"
  /\ pp.offered < MaxOffers
  /\ \E c \in CandidatePool :
       pp' = AfterOffer(pp, c,
                      /\ c # NoPublication
                      /\ _is_unique_publication(c, pp.tracker.seen_urls,
                                                pp.tracker.seen_titles))
  /\ UNCHANGED <<nt, year, files, run, nruns, resp, last>>

NextTrack == OfferCandidate

SpecTrack == InitTrack /\ [][NextTrack]_vars

\* one invocation of scraper.py at a time, the endpoints, the calendar
Init ==
  /\ nt = NormIdle
  /\ pp = ParseIdle
  /\ PipelineInit

Next ==
  \/ Start(1) \/ Fetch(1) \/ JsonOpen(1) \/ JsonWrite(1) \/ AnalysisOpen(1)
  \/ AnalysisWrite(1) \/ CsvOpen(1) \/ CsvWrite(1) \/ Finish(1)
  \/ NewYear \/ GetPublications \/ GetAnalysis \/ GetStatus

Spec == Init /\ [][Next]_vars

\* invocations of scraper.py in parallel (two POST /refresh), one calendar year
NextConcurrent ==
  \E r \in Runs :
     \/ Start(r) \/ Fetch(r) \/ JsonOpen(r) \/ JsonWrite(r) \/ AnalysisOpen(r)
     \/ AnalysisWrite(r) \/ CsvOpen(r) \/ CsvWrite(r) \/ Finish(r)

SpecConcurrent == Init /\ [][NextConcurrent]_vars

(***************************************************************************)
(* Properties of the page parser (SpecParse)                                *)
(***************************************************************************)
Parsed == pp.pc = "parsed"

Kept == pp.result.publications

Offered == pp.result.candidates

\* a candidate with a title and a URL
ValidCandidate(c) == c # NoPublication /\ ~Falsy(c.title) /\ ~Falsy(c.download_url)

SameUrl(a, b) == a.download_url = b.download_url

SameTitle(a, b) == _normalize_title(a.title) = _normalize_title(b.title)

\* where a kept publication was first offered
FirstOffer(p) == Least({j \in 1..Len(Offered) : Offered[j] = p})

NoSharedKey ==
  \A k, l \in 1..Len(Kept) :
     k < l => ~SameUrl(Kept[k], Kept[l]) /\ ~SameTitle(Kept[k], Kept[l])

\* C1 as stated: the returned publications share no URL and no normalized
\* title, and each of them is the first candidate offered with its URL and the
\* first offered with its normalized title.
C1_FirstEncounteredKept ==
  Parsed =>
    /\ NoSharedKey
    /\ \A k \in 1..Len(Kept) : \A j \in 1..(FirstOffer(Kept[k]) - 1) :
          ValidCandidate(Offered[j]) =>
            ~SameUrl(Offered[j], Kept[k]) /\ ~SameTitle(Offered[j], Kept[k])

\* C1 amended: the returned publications share no URL and no normalized
\* title, they are candidates with a title and a URL in the order offered, and
\* a candidate with a title and a URL is dropped only if a publication kept
\* before it has its URL or its normalized title (a dropped candidate keeps
\* no later candidate out).
C1_FirstKeptWins ==
  Parsed =>
    /\ NoSharedKey
    /\ \A k \in 1..Len(Kept) :
          /\ ValidCandidate(Kept[k])
          /\ \E j \in 1..Len(Offered) : Offered[j] = Kept[k]
    /\ \A k, l \in 1..Len(Kept) : k < l => FirstOffer(Kept[k]) < FirstOffer(Kept[l])
    /\ \A j \in 1..Len(Offered) :
          ValidCandidate(Offered[j]) =>
            \E k \in 1..Len(Kept) :
               /\ FirstOffer(Kept[k]) <= j
               /\ SameUrl(Kept[k], Offered[j]) \/ SameTitle(Kept[k], Offered[j])

\* a candidate dropped for its URL alone and one dropped for its title alone,
\* the latter with a title spelled differently from the kept one
C1_Witness ==
  /\ Parsed
  /\ \E j \in 1..Len(Offered) : \E k \in 1..Len(Kept) :
        /\ ValidCandidate(Offered[j]) /\ FirstOffer(Kept[k]) < j
        /\ SameUrl(Kept[k], Offered[j]) /\ ~SameTitle(Kept[k], Offered[j])
  /\ \E j \in 1..Len(Offered) : \E k \in 1..Len(Kept) :
        /\ ValidCandidate(Offered[j]) /\ FirstOffer(Kept[k]) < j
        /\ ~SameUrl(Kept[k], Offered[j]) /\ SameTitle(Kept[k], Offered[j])
        /\ Kept[k].title # Offered[j].title

\* C2: the uniqueness check rejects a candidate whose title or URL is empty
\* whatever the sets hold, and every returned publication has a title and a URL.
C2_NoEmptyField ==
  Parsed =>
    /\ \A k \in 1..Len(Kept) : ~Falsy(Kept[k].title) /\ ~Falsy(Kept[k].download_url)
    /\ \A j \in 1..Len(Offered) : Offered[j] # NoPublication =>
         \A urls \in SUBSET pp.result.seen_urls :
           \A titles \in {{}, pp.result.seen_titles} :
              /\ Falsy(Offered[j].title) =>
                   ~_is_unique_publication(Offered[j], urls, titles)
              /\ ~_is_unique_publication([Offered[j] EXCEPT !.download_url = <<>>],
                                         urls, titles)
              /\ ~_is_unique_publication([Offered[j] EXCEPT !.title = <<>>],
                                         urls, titles)

\* a link without text under a block without heading was offered, and a later
\* link was kept
C2_Witness ==
  /\ Parsed
  /\ Kept # <<>>
  /\ \E j \in 1..Len(Offered) :
        /\ Offered[j] # NoPublication /\ Falsy(Offered[j].title)
        /\ \E k \in 1..Len(Kept) : FirstOffer(Kept[k]) > j

\* the page has no anchor whose href has .pdf
NoPdfAnchor(page) ==
  \A i \in 1..Len(page) : \A a \in 1..Len(page[i].anchors) :
     ~IsPdfHref(page[i].anchors[a].href)

\* no link of the raw-link loop gives a candidate with a title and a URL
NoLinkRecord(page) ==
  \A i \in 1..Len(LinkCandidates(page)) : ~ValidCandidate(LinkCandidates(page)[i])

\* no section of the section loop gives a candidate
NoSectionRecord(page) ==
  \A i \in 1..Len(SectionCandidates(page)) : ~ValidCandidate(SectionCandidates(page)[i])

\* C5: without a matching section the raw-link loop runs, also on a page
\* without PDF links, where it gives no record; if it gives no record the
\* known-record tier runs and returns only known publications whose title is
\* in the page text.
C5_TierFallback ==
  Parsed =>
    /\ publication_sections(pp.page) = <<>> =>
         /\ pp.result.tiers[1] = "links"
         /\ NoPdfAnchor(pp.page) =>
              \A j \in 1..Len(Offered) :
                 Offered[j] \in {known_publications[i] : i \in 1..Len(known_publications)}
    /\ publication_sections(pp.page) = <<>> /\ NoLinkRecord(pp.page) =>
         /\ pp.result.tiers = <<"links", "known">>
         /\ \A k \in 1..Len(Kept) :
               /\ Kept[k] \in {known_publications[i] : i \in 1..Len(known_publications)}
               /\ Contains(PageText(pp.page), Kept[k].title)

\* a page without sections and PDF links whose text has one of the two known
\* titles: the known-record tier returned that one only
C5_Witness ==
  /\ Parsed
  /\ publication_sections(pp.page) = <<>>
  /\ NoPdfAnchor(pp.page)
  /\ pp.result.tiers = <<"links", "known">>
  /\ Len(Kept) = 1

\* C6 as stated: the raw-link tier is attempted exactly when the section tier
\* gave no record, the known-record tier exactly when both were attempted and
\* gave no record.
C6_TiersInSequence ==
  Parsed =>
    LET attempted == {pp.result.tiers[i] : i \in 1..Len(pp.result.tiers)}
    IN  /\ "links" \in attempted <=> NoSectionRecord(pp.page)
        /\ "known" \in attempted <=>
             /\ "sections" \in attempted /\ "links" \in attempted
             /\ NoSectionRecord(pp.page) /\ NoLinkRecord(pp.page)

\* C6 amended: exactly one of the first two tiers is attempted, the section
\* tier when the search finds a matching element and the raw-link tier when it
\* finds none; the known-record tier is attempted, after it, exactly when the
\* tier attempted gave no record.
C6_OneTierThenKnown ==
  Parsed =>
    LET none_found == publication_sections(pp.page) = <<>>
        no_record  == IF none_found THEN NoLinkRecord(pp.page)
                      ELSE NoSectionRecord(pp.page)
    IN  pp.result.tiers =
          (IF none_found THEN <<"links">> ELSE <<"sections">>)
          \o (IF no_record THEN <<"known">> ELSE <<>>)

\* matching sections none of which gives a record, on a page with a PDF link
\* that the raw-link tier would take: the raw-link tier is skipped
C6_Witness ==
  /\ Parsed
  /\ publication_sections(pp.page) # <<>>
  /\ NoSectionRecord(pp.page)
  /\ ~NoLinkRecord(pp.page)
  /\ pp.result.tiers = <<"sections", "known">>

(***************************************************************************)
(* Properties of the pipeline (Spec, SpecConcurrent)                        *)
(***************************************************************************)
\* session.get raised, or raise_for_status raised for the status
FetchFailed(response) == response.error # "none" \/ response.status >= 400

PublicationsFile(y) == files[[kind |-> "publications", year |-> y]]
AnalysisFile(y)     == files[[kind |-> "analysis", year |-> y]]
CsvFile(y)          == files[[kind |-> "csv", year |-> y]]

\* C3: a run whose fetch raised a transport error, timed out or got an error
\* status has ended as failed after that one fetch, has saved nothing, and
\* every file is as it was when the run started.
C3_FetchFailureWritesNothing ==
  run[1].fetches > 0 /\ FetchFailed(run[1].response) =>
    /\ run[1].pc = "failed"
    /\ run[1].fetches = 1
    /\ run[1].saved = {}
    /\ files = run[1].files_before

\* a run failed on an error status while an earlier snapshot is on disk
C3_Witness ==
  /\ run[1].pc = "failed"
  /\ run[1].response.status = 503
  /\ PublicationsFile(ServedYear).exists
  /\ files = run[1].files_before

\* C4: a run whose fetch succeeded has, once ended, completed and left its
\* snapshot in the publications file.
C4_SuccessfulFetchWritesSnapshot ==
  run[1].pc \in Ended /\ run[1].fetches > 0 /\ ~FetchFailed(run[1].response) =>
    /\ run[1].pc = "done"
    /\ "publications" \in run[1].saved
    /\ PublicationsFile(run[1].current_year).content =
         PublicationsJson(run[1].publications, run[1].analysis, run[1].scraped_at)

\* what an endpoint answers from a snapshot
Served(endpoint, snapshot) ==
  IF endpoint = "/api/publications" THEN [publications |-> snapshot.publications]
  ELSE IF endpoint = "/api/analysis" THEN [analysis |-> snapshot.analysis]
  ELSE [last_scrape |-> snapshot.scraped_at,
        total_publications |-> Len(snapshot.publications)]

\* C7: an answer given after a run wrote its snapshot, with no write begun
\* since, has the data of that snapshot.
C7_ReadsLatestSnapshot ==
  /\ resp.endpoint # "none" /\ resp.seq = last.seq /\ last.seq > 0
  /\ ~resp.writing /\ ~last.writing
  => /\ resp.status = 200
     /\ resp.body = Served(resp.endpoint, last)

\* what run r holds of its own output is what the three files hold
HoldsOutputOf(r, y) ==
  /\ PublicationsFile(y).content =
       PublicationsJson(run[r].publications, run[r].analysis, run[r].scraped_at)
  /\ AnalysisFile(y).content = AnalysisJson(run[r].analysis)
  /\ CsvFile(y).content = CsvText(run[r].publications)

\* C8, for two runs that both saved the three files: once both have ended the
\* three files hold the output of one of them.
C8_LastWriterWins ==
  (\A r \in Runs : run[r].pc \in Ended /\ run[r].saved = {"publications", "analysis", "csv"})
    => \E r \in Runs : HoldsOutputOf(r, ServedYear)

(***************************************************************************)
(* Properties of the title normalizer (SpecNorm)                            *)
(***************************************************************************)
\* C9: normalizing a normalized title changes nothing.
C9_NormalizeIdempotent ==
  nt.pc \in {"renormalized", "tracked"} => nt.nnx = nt.nx

\* C10: the elided and the non-elided title normalize to the same string, and
\* the tracker keeps only the first of the two.
C10_ElisionFolded ==
  nt.pc = "tracked" /\ nt.x = ElidedTitle /\ nt.y = NonElidedTitle =>
    /\ nt.nx = nt.ny
    /\ Len(nt.kept) = 1

\* the dated records' years and the record the claims name the latest
ParsedYears(publications) ==
  {IntOf(AfterLastSlash(publications[i].date_posted)) :
     i \in {j \in 1..Len(publications) :
              /\ publications[j].date_posted # None
              /\ IsInt(AfterLastSlash(publications[j].date_posted))}}

HasYear(pub, y) == pub.date_posted # None /\ Contains(pub.date_posted, StrOf(y))

FirstOfLatestYear(publications) ==
  LET y == Greatest(ParsedYears(publications))
      holders == {i \in 1..Len(publications) : HasYear(publications[i], y)}
  IN  IF ParsedYears(publications) = {} \/ holders = {} THEN NoPublication
      ELSE publications[Least(holders)]

\* C11: the analysis of a non-empty list names as latest publication the first
\* record in list order whose date contains the greatest parsed year, and none
\* when no record has a parsable date.
C11_LatestIsFirstOfMaxYear ==
  pp.pc = "analysed" /\ pp.publications # <<>> =>
    /\ ~pp.analysed.raised
    /\ pp.analysed.analysis.latest_publication = FirstOfLatestYear(pp.publications)

\* the unit of a size written as number, space, unit
UnitOf(size) == SubSeq(size, Len(size) - 1, Len(size))

\* a size in megabytes as the claim counts it, in parts: a ko or KB size
\* divided by 1024, a size in another unit extract_file_size recognizes
\* unchanged
ClaimedParts(size) ==
  IF lower(UnitOf(size)) \in {<<"k","o">>, <<"k","b">>}
  THEN Parts(FirstNumber(size), 100)
  ELSE Parts(FirstNumber(size), PartsPerMB)

ClaimedSizes(publications) ==
  LET parsable == SelectSeq(publications,
                    LAMBDA pub : /\ pub.file_size # None
                                 /\ Len(pub.file_size) >= 2
                                 /\ lower(UnitOf(pub.file_size)) \in SizeUnits
                                 /\ FirstNumber(pub.file_size) # <<>>)
  IN  [i \in 1..Len(parsable) |-> ClaimedParts(parsable[i].file_size)]

\* C12: the average file size is the mean in megabytes over every record whose
\* size is parsable: ko and KB sizes divided by 1024, sizes in Mo, MB, Go, GB,
\* To and TB unchanged, only unparsable sizes left out (stated of the analyses
\* the method returns).
C12_AverageOverParsableSizes ==
  pp.pc = "analysed" /\ pp.publications # <<>> /\ ~pp.analysed.raised =>
    pp.analysed.analysis.average_file_size =
         (IF ClaimedSizes(pp.publications) = <<>> THEN None
          ELSE FormatMB(RoundHalfEven(Sum(ClaimedSizes(pp.publications)),
                                      Len(ClaimedSizes(pp.publications)) * 1024)))

\* a number with an optional fraction after "." or ",", then a unit, starting
\* at text[i]: <<number, unit>> with the fraction in the number, or <<>>
NumberAndUnitAt(text, i) ==
  LET dot   == SizeMatchAt(text, i, ".")
      comma == SizeMatchAt(text, i, ",")
  IN  IF dot = <<>> THEN comma
      ELSE IF comma = <<>> THEN dot
      ELSE IF Len(comma[1]) > Len(dot[1]) THEN comma ELSE dot

FirstNumberAndUnit(text) ==
  LET starts == {i \in 1..Len(text) : NumberAndUnitAt(text, i) # <<>>}
  IN  IF starts = {} THEN None
      ELSE NumberAndUnitAt(text, Least(starts))[1] \o <<" ">>
           \o NumberAndUnitAt(text, Least(starts))[2]

\* C13: extract_file_size returns the first number-and-unit occurrence of the
\* text, the whole number with its fraction after "." or ",", one space and
\* the unit as written, and None when the text has none.
C13_FirstSizeWithFraction ==
  nt.pc = "extracted" => nt.size = FirstNumberAndUnit(nt.text)

\* two digits, a slash, two digits, a slash, four digits
IsDDMMYYYY(date) ==
  /\ Len(date) = 10
  /\ date[3] = "/" /\ date[6] = "/"
  /\ \A i \in {1, 2, 4, 5, 7, 8, 9, 10} : date[i] \in Digits

\* C14: every date extract_date_from_text returns has the form DD/MM/YYYY.
C14_DateIsDDMMYYYY ==
  nt.pc = "extracted" /\ nt.date # None => IsDDMMYYYY(nt.date)

\* C15: the snapshot read back holds the publication list and the analysis
\* that were written, every key and value as it was.
C15_RoundTripIdentical ==
  pp.pc = "loaded" =>
    /\ pp.loaded.ok
    /\ pp.loaded.publications = pp.publications
    /\ pp.loaded.analysis = pp.analysed.analysis

\* the raw-link loop was the only loop entered: every candidate comes from the
\* anchor of its rank among the PDF anchors
LinksOnly == Parsed /\ pp.result.tiers = <<"links">>

AnchorOf(j) == pdf_links(pp.page)[j]

\* the candidates that were kept, by rank
KeptOffers == {j \in 1..Len(Offered) : \E k \in 1..Len(Kept) : Kept[k] = Offered[j]}

ShortText(a) == Len(StrippedText(a.text)) < MinLinkTitle

\* C16 as stated: a record of the raw-link loop has for title the link text
\* of at least 5 characters or, for a shorter link text, the heading; a
\* shorter link text is never the title.
C16_ShortTextNeverTitle ==
  LinksOnly =>
    \A j \in KeptOffers :
       IF ShortText(AnchorOf(j))
       THEN /\ AnchorOf(j).block.heading # None
            /\ Offered[j].title = StrippedText(AnchorOf(j).block.heading)
       ELSE Offered[j].title = StrippedText(AnchorOf(j).text)

\* C16 amended: the title is the heading for a shorter link text whose parent
\* has a heading, and the link text otherwise, a shorter one included.
C16_HeadingWhenPresent ==
  LinksOnly =>
    \A j \in KeptOffers :
       IF ShortText(AnchorOf(j)) /\ AnchorOf(j).block.heading # None
       THEN Offered[j].title = StrippedText(AnchorOf(j).block.heading)
       ELSE Offered[j].title = StrippedText(AnchorOf(j).text)

\* a short link text was kept as a title under a parent without heading, and
\* a heading was taken for another short link text
C16_Witness ==
  /\ LinksOnly
  /\ \E j \in KeptOffers :
        /\ ShortText(AnchorOf(j)) /\ AnchorOf(j).block.heading = None
        /\ Offered[j].title = StrippedText(AnchorOf(j).text)
  /\ \E j \in KeptOffers :
        /\ ShortText(AnchorOf(j)) /\ AnchorOf(j).block.heading # None
        /\ Offered[j].title = StrippedText(AnchorOf(j).block.heading)

\* the raw-link loop was entered; its candidates come first among the offered
LinksTier == Parsed /\ pp.result.tiers[1] = "links"

LinkOffered ==
  IF Len(pp.result.tiers) = 1 THEN Offered
  ELSE SubSeq(Offered, 1, Len(Offered) - Len(alternative_parsing(pp.page)))

EndsInPdf(href) ==
  Len(href) >= 4 /\ lower(SubSeq(href, Len(href) - 3, Len(href))) = dot_pdf

HasPdf(href) == \E i \in 1..Len(href) : EndsInPdf(SubSeq(href, 1, i))

\* the absolute URLs of the anchors of the page, in document order, whose
\* href passes the test
UrlsOfAnchors(Test(_)) ==
  LET collected == SelectSeq(AllAnchors(pp.page), LAMBDA a : Test(a.href))
  IN  [j \in 1..Len(collected) |-> urljoin(base_url, collected[j].href)]

OfferedUrls == [j \in 1..Len(LinkOffered) |-> LinkOffered[j].download_url]

KeptWereOffered ==
  \A k \in 1..Len(Kept) : \E j \in 1..Len(Offered) : Offered[j] = Kept[k]

\* C17 as stated: the raw-link loop hands to the extractor and the tracker
\* the anchors whose URL ends in .pdf in any letter case, and no other.
C17_OnlyUrlsEndingInPdf ==
  LinksTier => OfferedUrls = UrlsOfAnchors(EndsInPdf) /\ KeptWereOffered

\* C17 amended: the anchors whose URL contains .pdf in any letter case, at
\* its end or before a suffix, and no other.
C17_UrlsContainingPdf ==
  LinksTier => OfferedUrls = UrlsOfAnchors(HasPdf) /\ KeptWereOffered

\* an anchor with .pdf before a query string and an anchor ending in .PDF
\* were handed to the extractor, the second was kept
C17_Witness ==
  /\ LinksTier
  /\ \E j \in 1..Len(LinkOffered) :
        HasPdf(AnchorOf(j).href) /\ ~EndsInPdf(AnchorOf(j).href)
        /\ LinkOffered[j].download_url = urljoin(base_url, AnchorOf(j).href)
  /\ \E j \in KeptOffers :
        EndsInPdf(AnchorOf(j).href) /\ ~Contains(AnchorOf(j).href, dot_pdf)

\* C18: a turn of the tracker only adds to the two sets; an acceptance adds
\* the URL and the normalized title of the candidate and appends it to the
\* list, a rejection changes nothing, and a candidate rejected before is
\* rejected again.
C18_TrackerMonotonic ==
  [][ /\ pp.tracker.seen_urls \subseteq pp'.tracker.seen_urls
      /\ pp.tracker.seen_titles \subseteq pp'.tracker.seen_titles
      /\ pp'.accepted =>
           /\ pp'.tracker.seen_urls =
                pp.tracker.seen_urls \cup {pp'.candidate.download_url}
           /\ pp'.tracker.seen_titles =
                pp.tracker.seen_titles \cup {_normalize_title(pp'.candidate.title)}
           /\ pp'.tracker.publications =
                Append(pp.tracker.publications, pp'.candidate)
      /\ ~pp'.accepted => pp'.tracker = pp.tracker
      /\ pp'.candidate \in pp.rejected => ~pp'.accepted ]_vars

\* after two acceptances, a candidate with a URL and a title that had been
\* rejected before was offered again and rejected
C18_Witness ==
  /\ pp.pc = "tracking"
  /\ Len(pp.tracker.publications) = 2
  /\ pp.again /\ ~pp.accepted
  /\ pp.candidate # NoPublication
  /\ ~Falsy(pp.candidate.title) /\ ~Falsy(pp.candidate.download_url)

\* C19: an endpoint asked while the snapshot file it reads does not exist
\* answers with status 404.
C19_MissingSnapshotAnswers404 ==
  [][ (resp' # resp /\ ~files[ServedFile].exists) => resp'.status = 404 ]_vars

\* the publication list of the snapshot of year y
SnapshotList(y) == LoadSnapshot(PublicationsFile(y).content).publications

\* the CSV export of a list; of an empty list, no header and no row
CsvExport(publications) ==
  IF publications = <<>> THEN <<>> ELSE CsvText(publications)

\* C20: once a run that wrote a snapshot has ended, the CSV file next to
\* every snapshot holds the publication list of that snapshot.
C20_CsvHoldsSnapshotList ==
  \A r \in Runs :
    run[r].pc \in Ended /\ "publications" \in run[r].saved =>
      \A y \in Years :
        PublicationsFile(y).exists =>
          CsvFile(y).content = CsvExport(SnapshotList(y))

====
